---- MODULE Spec2Model ----
(***************************************************************************)
(* Model of smolagents_framework/mcp_tools.py: the linear pipeline         *)
(*   initialize_model -> setup_mcp_server -> with ToolCollection.from_mcp  *)
(*   -> CodeAgent(...) -> agent.run(...) -> leave the with block -> print. *)
(* The external collaborators (LiteLLMModel, ToolCollection.from_mcp,      *)
(* CodeAgent, agent.run) are modelled by their possible outcomes: each     *)
(* call either returns or raises.  The control flow around them (the with  *)
(* statement, the absence of any try/except, the order of the statements)  *)
(* is the script's own and is modelled statement by statement.             *)
(***************************************************************************)
EXTENDS Integers, Sequences, FiniteSets, TLC

VARIABLES
    pc,                \* the statement the script is at
    environ,           \* os.environ, as found when the script starts
    model,             \* the local `model` of main
    server_parameters, \* the local `server_parameters` of main
    sessionOpen,       \* the ToolCollection context is entered, not yet exited
    procRunning,       \* the tool-provider subprocess is alive
    spawned,           \* number of subprocesses started so far
    opens,             \* number of times the with statement called __enter__
    closes,            \* number of times the with statement called __exit__
    catalog,           \* tool_collection.tools, the tools the handshake yields
    agent,             \* the local `agent` of run_agent_with_mcp_tools
    runs,              \* number of times agent.run was called
    toolCalls,         \* number of tool invocations made by agent.run
    invoked,           \* the tools agent.run has invoked so far
    staleUse,          \* some tool was invoked while its session was not open
    exc,               \* the exception in flight, NoExc when none
    result,            \* the value agent.run returned, None before
    stdout,            \* lines printed to standard output
    stderr,            \* lines printed to standard error (the traceback)
    exitStatus         \* the process exit status, Alive while running

vars == << pc, environ, model, server_parameters, sessionOpen, procRunning,
           spawned, opens, closes, catalog, agent, runs, toolCalls, invoked,
           staleUse, exc, result, stdout, stderr, exitStatus >>

----------------------------------------------------------------------------
(* Bounds of the model *)

\* the tool provider advertises at most this many tools
MaxTools == 2

\* agent.run invokes tools at most this many times before it ends
MaxToolCalls == 2

----------------------------------------------------------------------------
(* Values *)

\* a local variable holds None, or Some(v) once v has been assigned to it
None == << >>
Some(v) == << v >>
NoExc == "NoExc"
Alive == -1

\* environment variable names and values the process may start with
EnvKeys == {"UV_PYTHON", "PATH"}
EnvVals == {"3.12", "3.13", "/usr/bin"}

\* every os.environ over EnvKeys: each key is absent or bound to one value
Environs == UNION { [ks -> EnvVals] : ks \in SUBSET EnvKeys }

\* the final answers a run may produce
Answers == {"answer_a", "answer_b"}

\* the errors session open can raise
OpenErrors == {"LaunchError", "ProtocolError"}

Dashes == "------------------------------------------------------------"

----------------------------------------------------------------------------
(* Pure functions *)

\* a Python dict display {**first, **second}: on a shared key the later
\* entry replaces the earlier one
DictDisplay(first, second) ==
    [k \in (DOMAIN first) \cup (DOMAIN second) |->
        IF k \in DOMAIN second THEN second[k] ELSE first[k]]

\* the literal entries written in the env dict of setup_mcp_server
EnvOverrides == [k \in {"UV_PYTHON"} |-> "3.13"]

\* env={"UV_PYTHON": "3.13", **os.environ}
ServerEnv(e) == DictDisplay(EnvOverrides, e)

initialize_model ==
    [model_id |-> "ollama_chat/qwen2.5-coder:7b",
     api_base |-> "http://127.0.0.1:11434",
     max_tokens |-> 2048,
     num_ctx |-> 8192]

setup_mcp_server(e) ==
    [command |-> "uvx",
     args |-> << "--quiet", "pubmedmcp@0.1.3" >>,
     env |-> ServerEnv(e)]

----------------------------------------------------------------------------
(* Control flow *)

\* the statements inside the with block of run_agent_with_mcp_tools
WithBody == {"make_agent", "call_run", "in_run"}

\* variant: the with block ends before agent.run is called
NextPcRunAfterWith(p) ==
    CASE p = "init_model"   -> "setup_server"
      [] p = "setup_server" -> "connect"
      [] p = "connect"      -> "with_enter"
      [] p = "with_enter"   -> "make_agent"
      [] p = "make_agent"   -> "with_exit"
      [] p = "with_exit"    -> "call_run"
      [] p = "call_run"     -> "in_run"
      [] p = "in_run"       -> "after_with"
      [] p = "after_with"   -> "done"
      [] OTHER              -> "done"

\* variant: the session is entered without a with statement, so that
\* nothing leaves it
NextPcNoWith(p) ==
    CASE p = "init_model"   -> "setup_server"
      [] p = "setup_server" -> "connect"
      [] p = "connect"      -> "with_enter"
      [] p = "with_enter"   -> "make_agent"
      [] p = "make_agent"   -> "call_run"
      [] p = "call_run"     -> "in_run"
      [] p = "in_run"       -> "after_with"
      [] p = "with_exit"    -> "after_with"
      [] p = "after_with"   -> "done"
      [] OTHER              -> "done"

\* the statement that follows p when p completes without raising
NextPc(p) ==
    CASE p = "init_model"   -> "setup_server"
      [] p = "setup_server" -> "connect"
      [] p = "connect"      -> "with_enter"
      [] p = "with_enter"   -> "make_agent"
      [] p = "make_agent"   -> "call_run"
      [] p = "call_run"     -> "in_run"
      [] p = "in_run"       -> "with_exit"
      [] p = "with_exit"    -> "after_with"
      [] p = "after_with"   -> "done"
      [] OTHER              -> "done"

\* variant: no guaranteed release, an exception leaves the block directly
OnRaiseNoFinally(p) == "unwind"

\* variant: a failed open is attempted again
OnRaiseRetry(p) ==
    IF p = "with_enter" THEN "with_enter"
    ELSE IF p \in WithBody THEN "with_exit" ELSE "unwind"

\* variant: a failed open is swallowed and the body is entered all the same
OnRaiseSwallow(p) ==
    IF p = "with_enter" THEN "make_agent"
    ELSE IF p \in WithBody THEN "with_exit" ELSE "unwind"

\* where control goes when statement p raises: the with statement runs
\* __exit__ for an exception raised in its body; nothing else in the script
\* catches anything, so every other exception leaves main
OnRaise(p) == IF p \in WithBody THEN "with_exit" ELSE "unwind"

\* variant: main's caller catches the error and the script ends normally
ExitStatusSwallowed(e) == 0

\* exit status of the interpreter: 0 when main returns, non-zero when an
\* exception leaves main uncaught
ExitStatus(e) ==
    IF e = NoExc THEN 0 ELSE IF e = "KeyboardInterrupt" THEN 130 ELSE 1

----------------------------------------------------------------------------
(* Initial state *)

Init ==
    /\ pc = "init_model"
    /\ environ \in Environs
    /\ model = None
    /\ server_parameters = None
    /\ sessionOpen = FALSE
    /\ procRunning = FALSE
    /\ spawned = 0
    /\ opens = 0
    /\ closes = 0
    /\ catalog = {}
    /\ agent = None
    /\ runs = 0
    /\ toolCalls = 0
    /\ invoked = {}
    /\ staleUse = FALSE
    /\ exc = NoExc
    /\ result = None
    /\ stdout = << >>
    /\ stderr = << >>
    /\ exitStatus = Alive

----------------------------------------------------------------------------
(* Actions *)

\* print(line)
Printed(out, line) == Append(out, line)

\* statement pc raises e: the exception is in flight and control goes where
\* the enclosing with statement, if any, sends it
Raise(e) ==
    /\ exc' = e
    /\ pc' = OnRaise(pc)

\* the default smolagents tools added by add_base_tools=True
BaseTools == { << "base", 0 >> }

\* [*tool_collection.tools]: the tools bound to the session
McpTools(c) == { << "mcp", i >> : i \in c }

\* main: print, then model = initialize_model()
InitializeModel ==
    /\ pc = "init_model"
    /\ stdout' = Printed(stdout, "Initializing LiteLLM model...")
    /\ model' = Some(initialize_model)
    /\ pc' = NextPc(pc)
    /\ UNCHANGED << environ, server_parameters, sessionOpen, procRunning,
                    spawned, opens, closes, catalog, agent, runs, toolCalls,
                    invoked, staleUse, exc, result, stderr, exitStatus >>

\* main: print, then initialize_model() raises (the LiteLLMModel
\* constructor fails)
InitializeModelFails ==
    /\ pc = "init_model"
    /\ stdout' = Printed(stdout, "Initializing LiteLLM model...")
    /\ Raise("ConfigError")
    /\ UNCHANGED << environ, model, server_parameters, sessionOpen,
                    procRunning, spawned, opens, closes, catalog, agent, runs,
                    toolCalls, invoked, staleUse, result, stderr, exitStatus >>

\* main: print, then server_parameters = setup_mcp_server()
SetupMcpServer ==
    /\ pc = "setup_server"
    /\ stdout' = Printed(stdout, "Setting up MCP server parameters...")
    /\ server_parameters' = Some(setup_mcp_server(environ))
    /\ pc' = NextPc(pc)
    /\ UNCHANGED << environ, model, sessionOpen, procRunning, spawned, opens,
                    closes, catalog, agent, runs, toolCalls, invoked,
                    staleUse, exc, result, stderr, exitStatus >>

\* main prints the two progress lines and calls run_agent_with_mcp_tools
Connect ==
    /\ pc = "connect"
    /\ stdout' = Printed(Printed(stdout,
                     "Connecting to MCP server and running agent..."), Dashes)
    /\ pc' = NextPc(pc)
    /\ UNCHANGED << environ, model, server_parameters, sessionOpen,
                    procRunning, spawned, opens, closes, catalog, agent, runs,
                    toolCalls, invoked, staleUse, exc, result, stderr,
                    exitStatus >>

\* with ToolCollection.from_mcp(...) as tool_collection: __enter__ starts
\* the subprocess, the handshake succeeds and yields the tool catalog c
WithEnter(c) ==
    /\ pc = "with_enter"
    /\ opens' = opens + 1
    /\ spawned' = spawned + 1
    /\ procRunning' = TRUE
    /\ sessionOpen' = TRUE
    /\ catalog' = c
    /\ pc' = NextPc(pc)
    /\ UNCHANGED << environ, model, server_parameters, closes, agent, runs,
                    toolCalls, invoked, staleUse, exc, result, stdout, stderr,
                    exitStatus >>

\* __enter__ raises: the executable cannot be started (LaunchError, nothing
\* was spawned) or the handshake fails (ProtocolError, the process that was
\* started is terminated by open before it raises)
WithEnterFails(e) ==
    /\ pc = "with_enter"
    /\ opens' = opens + 1
    /\ spawned' = IF e = "ProtocolError" THEN spawned + 1 ELSE spawned
    /\ Raise(e)
    /\ UNCHANGED << environ, model, server_parameters, sessionOpen,
                    procRunning, closes, catalog, agent, runs, toolCalls,
                    invoked, staleUse, result, stdout, stderr, exitStatus >>

\* agent = CodeAgent(tools=[*tool_collection.tools], model=model,
\*                   add_base_tools=True)
MakeAgent ==
    /\ pc = "make_agent"
    /\ agent' = Some([tools |-> McpTools(catalog) \cup BaseTools,
                      model |-> model])
    /\ pc' = NextPc(pc)
    /\ UNCHANGED << environ, model, server_parameters, sessionOpen,
                    procRunning, spawned, opens, closes, catalog, runs,
                    toolCalls, invoked, staleUse, exc, result, stdout, stderr,
                    exitStatus >>

\* the CodeAgent constructor raises
MakeAgentFails ==
    /\ pc = "make_agent"
    /\ Raise("AgentInitError")
    /\ UNCHANGED << environ, model, server_parameters, sessionOpen,
                    procRunning, spawned, opens, closes, catalog, agent, runs,
                    toolCalls, invoked, staleUse, result, stdout, stderr,
                    exitStatus >>

\* agent.run("Please find a remedy for hangover.") is called
AgentRunStart ==
    /\ pc = "call_run"
    /\ runs' = runs + 1
    /\ pc' = NextPc(pc)
    /\ UNCHANGED << environ, model, server_parameters, sessionOpen,
                    procRunning, spawned, opens, closes, catalog, agent,
                    toolCalls, invoked, staleUse, exc, result, stdout, stderr,
                    exitStatus >>

\* a tool bound to the session is used while the session is not open
Stale(t) == t \in McpTools(catalog) /\ ~sessionOpen

\* during agent.run the runner invokes tool t of the agent and gets a value
ToolCallReturns(t) ==
    /\ pc = "in_run"
    /\ agent # None
    /\ t \in agent[1].tools
    /\ toolCalls < MaxToolCalls
    /\ toolCalls' = toolCalls + 1
    /\ invoked' = invoked \cup {t}
    /\ staleUse' = (staleUse \/ Stale(t))
    /\ UNCHANGED << pc, environ, model, server_parameters, sessionOpen,
                    procRunning, spawned, opens, closes, catalog, agent, runs,
                    exc, result, stdout, stderr, exitStatus >>

\* during agent.run the runner invokes tool t and the exchange fails: the
\* runner raises
ToolCallFails(t) ==
    /\ pc = "in_run"
    /\ agent # None
    /\ t \in agent[1].tools
    /\ toolCalls < MaxToolCalls
    /\ toolCalls' = toolCalls + 1
    /\ invoked' = invoked \cup {t}
    /\ staleUse' = (staleUse \/ Stale(t))
    /\ Raise("RunError")
    /\ UNCHANGED << environ, model, server_parameters, sessionOpen,
                    procRunning, spawned, opens, closes, catalog, agent, runs,
                    result, stdout, stderr, exitStatus >>

\* result = agent.run(...) returns the final answer a
AgentRunReturns(a) ==
    /\ pc = "in_run"
    /\ result' = Some(a)
    /\ pc' = NextPc(pc)
    /\ UNCHANGED << environ, model, server_parameters, sessionOpen,
                    procRunning, spawned, opens, closes, catalog, agent, runs,
                    toolCalls, invoked, staleUse, exc, stdout, stderr,
                    exitStatus >>

\* agent.run raises by itself (model endpoint unreachable, step limit, ...)
AgentRunRaises ==
    /\ pc = "in_run"
    /\ Raise("RunError")
    /\ UNCHANGED << environ, model, server_parameters, sessionOpen,
                    procRunning, spawned, opens, closes, catalog, agent, runs,
                    toolCalls, invoked, staleUse, result, stdout, stderr,
                    exitStatus >>

\* an interrupt arrives while a statement of the with block is executing:
\* KeyboardInterrupt is raised there
Interrupt ==
    /\ pc \in WithBody
    /\ Raise("KeyboardInterrupt")
    /\ UNCHANGED << environ, model, server_parameters, sessionOpen,
                    procRunning, spawned, opens, closes, catalog, agent, runs,
                    toolCalls, invoked, staleUse, result, stdout, stderr,
                    exitStatus >>

\* the with statement calls __exit__: the session is closed and the
\* subprocess terminated; `return result` then returns to main, or the
\* exception in flight goes on out of main
WithExit ==
    /\ pc = "with_exit"
    /\ closes' = closes + 1
    /\ sessionOpen' = FALSE
    /\ procRunning' = FALSE
    /\ pc' = IF exc = NoExc THEN NextPc(pc) ELSE "unwind"
    /\ UNCHANGED << environ, model, server_parameters, spawned, opens,
                    catalog, agent, runs, toolCalls, invoked, staleUse, exc,
                    result, stdout, stderr, exitStatus >>

\* main after run_agent_with_mcp_tools returned: the two closing prints,
\* main returns and the interpreter exits
MainReturns ==
    /\ pc = "after_with"
    /\ stdout' = Printed(Printed(stdout, Dashes),
                         "Agent completed successfully!")
    /\ exitStatus' = ExitStatus(exc)
    /\ pc' = NextPc(pc)
    /\ UNCHANGED << environ, model, server_parameters, sessionOpen,
                    procRunning, spawned, opens, closes, catalog, agent, runs,
                    toolCalls, invoked, staleUse, exc, result, stderr >>

\* an exception leaves main: the interpreter prints the traceback and exits
Unwind ==
    /\ pc = "unwind"
    /\ stderr' = Append(stderr, exc)
    /\ exitStatus' = ExitStatus(exc)
    /\ pc' = "done"
    /\ UNCHANGED << environ, model, server_parameters, sessionOpen,
                    procRunning, spawned, opens, closes, catalog, agent, runs,
                    toolCalls, invoked, staleUse, exc, result, stdout >>

Next ==
    \/ InitializeModel
    \/ InitializeModelFails
    \/ SetupMcpServer
    \/ Connect
    \/ \E c \in SUBSET (1 .. MaxTools) : WithEnter(c)
    \/ \E e \in OpenErrors : WithEnterFails(e)
    \/ MakeAgent
    \/ MakeAgentFails
    \/ AgentRunStart
    \/ \E t \in McpTools(1 .. MaxTools) \cup BaseTools : ToolCallReturns(t)
    \/ \E t \in McpTools(1 .. MaxTools) \cup BaseTools : ToolCallFails(t)
    \/ \E a \in Answers : AgentRunReturns(a)
    \/ AgentRunRaises
    \/ Interrupt
    \/ WithExit
    \/ MainReturns
    \/ Unwind

Spec == Init /\ [][Next]_vars

----------------------------------------------------------------------------
(* Properties *)

SuccessLine == "Agent completed successfully!"

\* line has been printed to standard output
InStdout(line) == \E i \in DOMAIN stdout : stdout[i] = line

\* the with statement has entered the session: __enter__ was called and
\* did not raise
Entered == opens > 0 /\ exc \notin OpenErrors

\* control has left the with block of run_agent_with_mcp_tools
LeftBlock == pc \in {"after_with", "unwind", "done"}

\* the state of the program's state machine the script is in
ProgramState ==
    IF closes > 0 THEN "SessionClosed"
    ELSE IF exc # NoExc THEN "Failed"
    ELSE IF result # None THEN "Completed"
    ELSE IF runs > 0 THEN "Running"
    ELSE IF sessionOpen THEN "SessionOpen"
    ELSE IF model # None THEN "ModelConfigured"
    ELSE "Idle"

\* the arrows of Idle -> ModelConfigured -> SessionOpen -> Running ->
\* (Completed | Failed) -> SessionClosed
Arrow(a, b) ==
    \/ a = "Idle" /\ b = "ModelConfigured"
    \/ a = "ModelConfigured" /\ b = "SessionOpen"
    \/ a = "SessionOpen" /\ b = "Running"
    \/ a = "Running" /\ b \in {"Completed", "Failed"}
    \/ a \in {"Completed", "Failed"} /\ b = "SessionClosed"

\* C1: on every exit path from the with block (normal return, an exception
\* of agent construction or agent.run, an interrupt while the session is
\* open) __exit__ has run, and whenever the program has terminated the
\* tool-provider subprocess is not running.
C1_CloseOnEveryExitPath ==
    /\ (Entered /\ LeftBlock) => (closes = 1 /\ ~sessionOpen /\ ~procRunning)
    /\ pc = "done" => ~procRunning

\* C1 witness: the program has terminated after an interrupt arrived in the
\* open session, and the session was closed.
C1_Witness ==
    /\ pc = "done"
    /\ exc = "KeyboardInterrupt"
    /\ spawned = 1
    /\ closes = 1
    /\ ~procRunning

\* C2: when agent.run raises, the session is closed exactly once, and it is
\* closed before the failure is reported (the traceback) and the program
\* terminates.
C2_RunErrorClosesOnce ==
    exc = "RunError" =>
        /\ closes <= 1
        /\ (pc \in {"unwind", "done"} \/ stderr # << >>) =>
               (closes = 1 /\ ~sessionOpen)

\* C2 witness: the runner raised after zero tool calls, the failure was
\* reported and the session was closed once.
C2_Witness ==
    /\ pc = "done"
    /\ exc = "RunError"
    /\ toolCalls = 0
    /\ closes = 1
    /\ stderr = << "RunError" >>

\* C3: in the environment built by setup_mcp_server every override key
\* carries the override value, whatever os.environ holds for it.
C3_OverridesTakePrecedence ==
    server_parameters # None =>
        \A k \in DOMAIN EnvOverrides :
            server_parameters[1].env[k] = EnvOverrides[k]

\* C4 as stated: every change of program state follows one arrow of
\* Idle -> ModelConfigured -> SessionOpen -> Running -> (Completed | Failed)
\* -> SessionClosed, so that no state is skipped.
C4_NoStateSkipped ==
    [][ProgramState' # ProgramState => Arrow(ProgramState, ProgramState')]_vars

\* C4 amended: every change of program state follows one arrow of the
\* order, or is a failure that goes from a state before Completed directly
\* to Failed; a failure met before the session is open ends in Failed, which
\* is then never left.
C4_ForwardOrder ==
    [][ /\ ProgramState' # ProgramState =>
             \/ Arrow(ProgramState, ProgramState')
             \/ /\ ProgramState' = "Failed"
                /\ ProgramState \in {"Idle", "ModelConfigured", "SessionOpen"}
        /\ (ProgramState = "Failed" /\ ~sessionOpen) =>
             ProgramState' = "Failed" ]_vars

\* C4 witness: an execution that has gone through every state of the
\* success path and has terminated.
C4_Witness ==
    /\ pc = "done"
    /\ ProgramState = "SessionClosed"
    /\ result # None
    /\ exc = NoExc

\* C5: when opening the session fails, open was attempted exactly once, the
\* agent is never constructed or run, the error goes out of main to the
\* interpreter (non-zero exit, the error reported) and no subprocess runs.
C5_OpenFailureIsFatal ==
    exc \in OpenErrors =>
        /\ opens = 1
        /\ agent = None
        /\ runs = 0
        /\ ~sessionOpen
        /\ ~procRunning
        /\ pc \in {"unwind", "done"}
        /\ pc = "done" => (exitStatus # 0 /\ stderr = << exc >>)

\* C5 witness: the launch failed and the program has terminated.
C5_Witness ==
    /\ pc = "done"
    /\ exc = "LaunchError"
    /\ spawned = 0
    /\ exitStatus = 1

\* C6: the tools of the session are handed to the agent and invoked only
\* while the session is open: the body of the with block runs with the
\* session open, and no tool of the session was ever invoked after close.
C6_ToolsUsedOnlyWhileOpen ==
    /\ ~staleUse
    /\ pc \in WithBody => (sessionOpen /\ procRunning /\ closes = 0)
    /\ agent # None => opens = 1

\* C6 witness: a tool of the session was invoked during the run and the
\* session has been closed since.
C6_Witness ==
    /\ << "mcp", 1 >> \in invoked
    /\ closes = 1
    /\ pc = "done"

\* C7: the exit status is zero exactly when model configuration, session
\* open and the agent run all succeeded; a failure leaves main uncaught,
\* gives a non-zero status, and the success line is not printed.
C7_ExitStatus ==
    /\ pc # "done" => exitStatus = Alive
    /\ pc = "done" =>
          /\ exitStatus = 0 <=> (model # None /\ Entered /\ result # None)
          /\ exitStatus # 0 => (exc # NoExc /\ stderr = << exc >>)
    /\ exc # NoExc => ~InStdout(SuccessLine)

\* C7 witness: model configuration failed and the program has terminated
\* with a non-zero status.
C7_Witness ==
    /\ pc = "done"
    /\ exc = "ConfigError"
    /\ exitStatus = 1
    /\ ~InStdout(SuccessLine)

\* C8: when the agent run completes successfully, the program terminates
\* with the run's result printed to standard output.
C8_ResultPrinted ==
    (pc = "done" /\ exc = NoExc) => (result # None /\ InStdout(result[1]))

\* C10: at most one session is open and at most one subprocess is spawned:
\* the session is opened once, never reopened after close, and agent.run is
\* started at most once.
C10_SingleSession ==
    /\ opens <= 1
    /\ spawned <= 1
    /\ closes <= 1
    /\ runs <= 1
    /\ sessionOpen => (opens = 1 /\ closes = 0)
    /\ procRunning => sessionOpen

\* C10 witness: a full execution that opened one session, spawned one
\* subprocess and ran the agent once.
C10_Witness ==
    /\ pc = "done"
    /\ opens = 1
    /\ spawned = 1
    /\ runs = 1
    /\ closes = 1

====
